---- MODULE Spec2Model ----
(***************************************************************************)
(* Serde bridge of bimap-rs (src/serde.rs): Serialize and Deserialize for  *)
(* BiHashMap and BiBTreeMap.                                               *)
(*                                                                         *)
(* Two programs are modelled.                                              *)
(*   Spec   : the round trip of the module's first two doc-tests: a bimap  *)
(*            is built by insert, serialized to a map-shaped stream, and   *)
(*            the stream is deserialized again (the decoder may fail).     *)
(*   SpecDe : the third doc-test generalised: visit_map is fed by a        *)
(*            foreign decoder that yields arbitrary pairs, repeated left   *)
(*            and right values included.                                   *)
(* The loop of visit_map is modelled one iteration per step, so that the   *)
(* partially populated bimap is a state.                                   *)
(***************************************************************************)
EXTENDS Integers, Sequences, FiniteSets, TLC

VARIABLES
    variant,   \* "hash" (BiHashMap) or "btree" (BiBTreeMap)
    bimap,     \* the caller's bimap (`map` of the doc-tests)
    wire,      \* what serialize handed to the encoder: a sequence of entries
    pc,        \* "idle", "serialized", "deserialize", "visit_map", "ok", "err"
    entries,   \* the MapAccess handed to visit_map: source, read position and
               \* the error it raised, if any
    map,       \* the local `map` of visit_map
    decoded,   \* the pairs next_entry has yielded so far, in arrival order
    ret        \* what deserialize returned

vars == <<variant, bimap, wire, pc, entries, map, decoded, ret>>

\* ---------------------------------------------------------------- bounds
NumLeft == 3
NumRight == 3
MaxLen == 3
MaxHint == 4

Lefts == 1..NumLeft
Rights == 1..NumRight
AllPairs == Lefts \X Rights
Errors == {"E1", "E2"}
Variants == {"hash", "btree"}

\* the values of the module's doc-tests
A == 1
B == 2
C == 3

\* ------------------------------------------------- single-direction index
Remove(f, k) == [x \in DOMAIN f \ {k} |-> f[x]]

Put(f, k, v) == [x \in DOMAIN f \cup {k} |-> IF x = k THEN v ELSE f[x]]

EmptyIndex == [x \in {} |-> 0]

\* ------------------------------------------------------------ bimap core
BiMap_new == [left2right |-> EmptyIndex, right2left |-> EmptyIndex, cap |-> 0]

\* pre-sized for s pairs; the allocation is taken to succeed
with_capacity(s) == [left2right |-> EmptyIndex, right2left |-> EmptyIndex, cap |-> s]

len(m) == Cardinality(DOMAIN m.left2right)

PairsOf(m) == {<<l, m.left2right[l]>> : l \in DOMAIN m.left2right}

get_by_left(m, l) ==
    IF l \in DOMAIN m.left2right THEN <<m.left2right[l]>> ELSE <<>>

get_by_right(m, r) ==
    IF r \in DOMAIN m.right2left THEN <<m.right2left[r]>> ELSE <<>>

Grow(m) == [m EXCEPT !.cap = IF len(m) > m.cap THEN len(m) ELSE m.cap]

\* insert: purge the stale mirror of l, purge the stale mirror of r, then
\* write the pair into both indexes
insert(m, l, r) ==
    LET hasL == l \in DOMAIN m.left2right
        hasR == r \in DOMAIN m.right2left
        r2l == IF hasL THEN Remove(m.right2left, m.left2right[l])
                       ELSE m.right2left
        l2r == IF hasR THEN Remove(m.left2right, m.right2left[r])
                       ELSE m.left2right
    IN Grow([m EXCEPT !.left2right = Put(l2r, l, r),
                      !.right2left = Put(r2l, r, l)])

\* a faulty insertion: writes the pair into both indexes and purges nothing
insert_unchecked(m, l, r) ==
    Grow([m EXCEPT !.left2right = Put(m.left2right, l, r),
                   !.right2left = Put(m.right2left, r, l)])

\* the non-overwriting insertion: nothing changes when l or r is present
try_insert(m, l, r) ==
    IF l \in DOMAIN m.left2right \/ r \in DOMAIN m.right2left
    THEN m
    ELSE insert(m, l, r)

\* ------------------------------------------------------------- iteration
Orderings(S) ==
    {f \in [1..Cardinality(S) -> S] : \A i, j \in DOMAIN f : i # j => f[i] # f[j]}

Ascending(f) == \A i, j \in DOMAIN f : i < j => f[i] < f[j]

\* iter() of the hash variant: the pairs of left2right in an order the hash
\* table chooses
BiHashMap_iter(m) ==
    {[i \in DOMAIN o |-> <<o[i], m.left2right[o[i]]>>] :
        o \in Orderings(DOMAIN m.left2right)}

\* iter() of the ordered variant: the pairs of left2right, ascending by left
BiBTreeMap_iter(m) ==
    {[i \in DOMAIN o |-> <<o[i], m.left2right[o[i]]>>] :
        o \in {p \in Orderings(DOMAIN m.left2right) : Ascending(p)}}

\* Serializer::collect_map: one map entry per item of the iterator, in order
collect_map(it) == [i \in DOMAIN it |-> [key |-> it[i][1], value |-> it[i][2]]]

\* --------------------------------------------------------------- decoder
NoEntries == [src |-> "none", pos |-> 0, raised |-> "none"]

\* MapAccess::next_entry: the results the decoder may produce next
next_entry ==
    {[tag |-> "Err", err |-> e] : e \in Errors}
    \cup
    (IF entries.src = "wire"
     THEN IF entries.pos <= Len(wire)
          THEN {[tag |-> "Some",
                 l |-> wire[entries.pos].key, r |-> wire[entries.pos].value]}
          ELSE {[tag |-> "None"]}
     ELSE {[tag |-> "None"]}
          \cup
          (IF Len(decoded) < MaxLen
           THEN {[tag |-> "Some", l |-> p[1], r |-> p[2]] : p \in AllPairs}
           ELSE {}))

\* MapAccess::size_hint: absent, or a count
size_hint ==
    IF entries.src = "wire"
    THEN {<<>>, <<Len(wire)>>}
    ELSE {<<>>} \cup {<<n>> : n \in 0..MaxHint}

NoMap == [left2right |-> EmptyIndex, right2left |-> EmptyIndex, cap |-> -1]

NoRet == [tag |-> "None"]

\* ------------------------------------------------------------------ Init
Init ==
    /\ variant \in Variants
    /\ bimap = BiMap_new
    /\ wire = <<>>
    /\ pc = "idle"
    /\ entries = NoEntries
    /\ map = NoMap
    /\ decoded = <<>>
    /\ ret = NoRet

\* ------------------------------------------------------- caller's inserts
Insert ==
    /\ pc = "idle"
    /\ \E l \in Lefts, r \in Rights : bimap' = insert(bimap, l, r)
    /\ UNCHANGED <<variant, wire, pc, entries, map, decoded, ret>>

\* ------------------------------------------------------------- serialize
\* a serialize that walks the right-to-left index: keys and values swapped
BiHashMap_serialize_swapped ==
    /\ pc = "idle"
    /\ variant = "hash"
    /\ \E it \in BiHashMap_iter(bimap) :
          wire' = [i \in DOMAIN it |-> [key |-> it[i][2], value |-> it[i][1]]]
    /\ pc' = "serialized"
    /\ UNCHANGED <<variant, bimap, entries, map, decoded, ret>>

BiHashMap_serialize ==
    /\ pc = "idle"
    /\ variant = "hash"
    /\ \E it \in BiHashMap_iter(bimap) : wire' = collect_map(it)
    /\ pc' = "serialized"
    /\ UNCHANGED <<variant, bimap, entries, map, decoded, ret>>

\* a serialize that walks the iterator backwards
BiBTreeMap_serialize_rev ==
    /\ pc = "idle"
    /\ variant = "btree"
    /\ \E it \in BiBTreeMap_iter(bimap) :
          wire' = collect_map([i \in DOMAIN it |-> it[Len(it) + 1 - i]])
    /\ pc' = "serialized"
    /\ UNCHANGED <<variant, bimap, entries, map, decoded, ret>>

BiBTreeMap_serialize ==
    /\ pc = "idle"
    /\ variant = "btree"
    /\ \E it \in BiBTreeMap_iter(bimap) : wire' = collect_map(it)
    /\ pc' = "serialized"
    /\ UNCHANGED <<variant, bimap, entries, map, decoded, ret>>

\* ----------------------------------------------------------- deserialize
\* the guard of a deserialize call: the stream serialize produced is read
\* once it exists, a foreign stream is read into a fresh program
CanDeserialize(src) == pc = (IF src = "wire" THEN "serialized" ELSE "idle")

\* Deserialize::deserialize of BiHashMap hands BiHashMapVisitor to the
\* decoder of the stream, which calls visit_map with its MapAccess
BiHashMap_deserialize(src) ==
    /\ CanDeserialize(src)
    /\ variant = "hash"
    /\ entries' = [src |-> src, pos |-> 1, raised |-> "none"]
    /\ pc' = "deserialize"
    /\ UNCHANGED <<variant, bimap, wire, map, decoded, ret>>

\* Deserialize::deserialize of BiBTreeMap, likewise with BiBTreeMapVisitor
BiBTreeMap_deserialize(src) ==
    /\ CanDeserialize(src)
    /\ variant = "btree"
    /\ entries' = [src |-> src, pos |-> 1, raised |-> "none"]
    /\ pc' = "deserialize"
    /\ UNCHANGED <<variant, bimap, wire, map, decoded, ret>>

\* visit_map of BiHashMapVisitor, its first statement
BiHashMapVisitor_new_map ==
    /\ pc = "deserialize"
    /\ variant = "hash"
    /\ \E h \in size_hint :
          map' = IF h # <<>> THEN with_capacity(h[1]) ELSE BiMap_new
    /\ pc' = "visit_map"
    /\ UNCHANGED <<variant, bimap, wire, entries, decoded, ret>>

\* loop bodies that call the wrong insertion
BiHashMapVisitor_loop_body_unchecked(m, l, r) == insert_unchecked(m, l, r)

BiHashMapVisitor_loop_body_try(m, l, r) == try_insert(m, l, r)

\* a loop body that purges the stale mirror of l only, as a plain map would
BiHashMapVisitor_loop_body_left_only(m, l, r) ==
    LET r2l == IF l \in DOMAIN m.left2right
               THEN Remove(m.right2left, m.left2right[l])
               ELSE m.right2left
    IN Grow([m EXCEPT !.left2right = Put(m.left2right, l, r),
                      !.right2left = Put(r2l, r, l)])

\* the body of the while-let loop
BiHashMapVisitor_loop_body(m, l, r) == insert(m, l, r)

BiHashMapVisitor_next_some ==
    /\ pc = "visit_map"
    /\ variant = "hash"
    /\ \E e \in next_entry :
          /\ e.tag = "Some"
          /\ map' = BiHashMapVisitor_loop_body(map, e.l, e.r)
          /\ decoded' = Append(decoded, <<e.l, e.r>>)
    /\ entries' = [entries EXCEPT !.pos = @ + 1]
    /\ UNCHANGED <<variant, bimap, wire, pc, ret>>

\* a loop that ends on a decode error as if the stream had ended
BiHashMapVisitor_next_err_swallowed ==
    /\ pc = "visit_map"
    /\ variant = "hash"
    /\ \E e \in next_entry :
          /\ e.tag = "Err"
          /\ entries' = [entries EXCEPT !.raised = e.err]
    /\ ret' = [tag |-> "Ok", value |-> map]
    /\ map' = NoMap
    /\ pc' = "ok"
    /\ UNCHANGED <<variant, bimap, wire, decoded>>

BiHashMapVisitor_next_err ==
    /\ pc = "visit_map"
    /\ variant = "hash"
    /\ \E e \in next_entry :
          /\ e.tag = "Err"
          /\ ret' = [tag |-> "Err", err |-> e.err]
          /\ entries' = [entries EXCEPT !.raised = e.err]
    /\ map' = NoMap
    /\ pc' = "err"
    /\ UNCHANGED <<variant, bimap, wire, decoded>>

\* an `if let` in place of the `while let`: at most one entry is read
BiHashMapVisitor_next_none_if_let ==
    /\ pc = "visit_map"
    /\ variant = "hash"
    /\ (len(map) >= 1 \/ \E e \in next_entry : e.tag = "None")
    /\ ret' = [tag |-> "Ok", value |-> map]
    /\ map' = NoMap
    /\ pc' = "ok"
    /\ UNCHANGED <<variant, bimap, wire, entries, decoded>>

BiHashMapVisitor_next_none ==
    /\ pc = "visit_map"
    /\ variant = "hash"
    /\ \E e \in next_entry : e.tag = "None"
    /\ ret' = [tag |-> "Ok", value |-> map]
    /\ map' = NoMap
    /\ pc' = "ok"
    /\ UNCHANGED <<variant, bimap, wire, entries, decoded>>

\* visit_map of BiBTreeMapVisitor: size_hint is never asked
BiBTreeMapVisitor_new_map ==
    /\ pc = "deserialize"
    /\ variant = "btree"
    /\ map' = BiMap_new
    /\ pc' = "visit_map"
    /\ UNCHANGED <<variant, bimap, wire, entries, decoded, ret>>

BiBTreeMapVisitor_loop_body_unchecked(m, l, r) == insert_unchecked(m, l, r)

BiBTreeMapVisitor_loop_body_try(m, l, r) == try_insert(m, l, r)

\* the body of the while-let loop
BiBTreeMapVisitor_loop_body(m, l, r) == insert(m, l, r)

BiBTreeMapVisitor_next_some ==
    /\ pc = "visit_map"
    /\ variant = "btree"
    /\ \E e \in next_entry :
          /\ e.tag = "Some"
          /\ map' = BiBTreeMapVisitor_loop_body(map, e.l, e.r)
          /\ decoded' = Append(decoded, <<e.l, e.r>>)
    /\ entries' = [entries EXCEPT !.pos = @ + 1]
    /\ UNCHANGED <<variant, bimap, wire, pc, ret>>

BiBTreeMapVisitor_next_err ==
    /\ pc = "visit_map"
    /\ variant = "btree"
    /\ \E e \in next_entry :
          /\ e.tag = "Err"
          /\ ret' = [tag |-> "Err", err |-> e.err]
          /\ entries' = [entries EXCEPT !.raised = e.err]
    /\ map' = NoMap
    /\ pc' = "err"
    /\ UNCHANGED <<variant, bimap, wire, decoded>>

BiBTreeMapVisitor_next_none ==
    /\ pc = "visit_map"
    /\ variant = "btree"
    /\ \E e \in next_entry : e.tag = "None"
    /\ ret' = [tag |-> "Ok", value |-> map]
    /\ map' = NoMap
    /\ pc' = "ok"
    /\ UNCHANGED <<variant, bimap, wire, entries, decoded>>

Visit ==
    \/ BiHashMapVisitor_new_map
    \/ BiHashMapVisitor_next_some
    \/ BiHashMapVisitor_next_err
    \/ BiHashMapVisitor_next_none
    \/ BiBTreeMapVisitor_new_map
    \/ BiBTreeMapVisitor_next_some
    \/ BiBTreeMapVisitor_next_err
    \/ BiBTreeMapVisitor_next_none

Next ==
    \/ Insert
    \/ BiHashMap_serialize
    \/ BiBTreeMap_serialize
    \/ BiHashMap_deserialize("wire")
    \/ BiBTreeMap_deserialize("wire")
    \/ Visit

Spec == Init /\ [][Next]_vars

NextDe ==
    \/ BiHashMap_deserialize("foreign")
    \/ BiBTreeMap_deserialize("foreign")
    \/ Visit

SpecDe == Init /\ [][NextDe]_vars

\* ============================================================ properties
I1(m) == Cardinality(DOMAIN m.left2right) = Cardinality(DOMAIN m.right2left)

I2(m) ==
    \A l \in Lefts, r \in Rights :
        (l \in DOMAIN m.left2right /\ m.left2right[l] = r)
        <=> (r \in DOMAIN m.right2left /\ m.right2left[r] = l)

I3(m) ==
    /\ \A l1, l2 \in DOMAIN m.left2right :
          l1 # l2 => m.left2right[l1] # m.left2right[l2]
    /\ \A r1, r2 \in DOMAIN m.right2left :
          r1 # r2 => m.right2left[r1] # m.right2left[r2]

Range(s) == {s[i] : i \in DOMAIN s}

WirePairs == {<<wire[i].key, wire[i].value>> : i \in DOMAIN wire}

RECURSIVE Replay(_)
Replay(s) ==
    IF s = <<>>
    THEN BiMap_new
    ELSE LET n == Len(s)
         IN insert(Replay(SubSeq(s, 1, n - 1)), s[n][1], s[n][2])

SameIndexes(m1, m2) ==
    m1.left2right = m2.left2right /\ m1.right2left = m2.right2left

Conflicts(p, q) == p # q /\ (p[1] = q[1] \/ p[2] = q[2])

CollisionFree(s) ==
    \A i, j \in DOMAIN s : i # j => s[i][1] # s[j][1] /\ s[i][2] # s[j][2]

DoubleCollision(m, l, r) ==
    /\ l \in DOMAIN m.left2right
    /\ r \in DOMAIN m.right2left
    /\ m.left2right[l] # r
    /\ m.right2left[r] # l

\* a step of visit_map's loop that inserted the pair it decoded
VisitInserted ==
    /\ pc = "visit_map"
    /\ pc' = "visit_map"
    /\ Len(decoded') = Len(decoded) + 1

\* no step of deserialize changes the caller's bimap
CallerBimapKept == pc \in {"deserialize", "visit_map"} => bimap' = bimap

\* a serialize step does not change the bimap
SerializeKeepsBimap == (pc = "idle" /\ pc' = "serialized") => bimap' = bimap

\* C1: round trip. When deserialize succeeds on the stream serialize(M)
\* emitted, in whatever order the hash variant emitted it, the bimap
\* returned holds exactly the pairs of M.
C1_RoundTrip ==
    (pc = "ok" /\ entries.src = "wire")
    => /\ PairsOf(ret.value) = PairsOf(bimap)
       /\ len(ret.value) = len(bimap)

C1_Witness ==
    /\ pc = "ok"
    /\ entries.src = "wire"
    /\ variant = "hash"
    /\ Len(wire) = 2
    /\ wire[1].key > wire[2].key
    /\ PairsOf(ret.value) = PairsOf(bimap)

\* C2: after every insertion of deserialize, repeated left and right values
\* in the input included, both indexes have the same size (I1), each entry
\* has its mirror (I2), and no value occurs in two stored pairs (I3); the
\* same holds of the bimap that is returned.
C2_InvariantsPreserved ==
    /\ pc = "visit_map" => I1(map) /\ I2(map) /\ I3(map)
    /\ pc = "ok" => I1(ret.value) /\ I2(ret.value) /\ I3(ret.value)

C2_Witness ==
    /\ pc = "visit_map"
    /\ Len(decoded) = 3
    /\ decoded[1][1] = decoded[2][1] /\ decoded[1][2] # decoded[2][2]
    /\ decoded[2][2] = decoded[3][2] /\ decoded[2][1] # decoded[3][1]
    /\ I1(map) /\ I2(map)

\* C3: deserializing (A,1), (B,2), (C,2), in any arrival order, succeeds
\* with a bimap of 2 pairs where A maps to 1 and exactly one of B, C maps to
\* 2 while the other is absent.
C3_NonBimapSource ==
    (/\ pc = "ok"
     /\ Len(decoded) = 3
     /\ Range(decoded) = {<<A, 1>>, <<B, 2>>, <<C, 2>>})
    => /\ ret.tag = "Ok"
       /\ len(ret.value) = 2
       /\ get_by_left(ret.value, A) = <<1>>
       /\ (get_by_left(ret.value, B) = <<2>>) # (get_by_left(ret.value, C) = <<2>>)
       /\ (get_by_left(ret.value, B) = <<>>) # (get_by_left(ret.value, C) = <<>>)

C3_Witness ==
    /\ pc = "ok"
    /\ decoded = << <<C, 2>>, <<A, 1>>, <<B, 2>> >>
    /\ get_by_left(ret.value, B) = <<2>>
    /\ get_by_left(ret.value, C) = <<>>

C5_SizeNotSmaller ==
    [][VisitInserted =>
        LET l == decoded'[Len(decoded')][1]
            r == decoded'[Len(decoded')][2]
        IN DoubleCollision(map, l, r) => len(map') >= len(map)
    ]_vars

\* C5, amended: under double eviction the size after the insert is the size
\* before it minus one (two pairs removed, one added).
C5_SizeDecreasesByOne ==
    [][VisitInserted =>
        LET l == decoded'[Len(decoded')][1]
            r == decoded'[Len(decoded')][2]
        IN DoubleCollision(map, l, r) =>
            /\ len(map') = len(map) - 1
            /\ Cardinality(DOMAIN map'.right2left) = len(map) - 1
    ]_vars

C5_Witness ==
    /\ pc = "visit_map"
    /\ Len(decoded) = 3
    /\ Conflicts(decoded[3], decoded[1])
    /\ Conflicts(decoded[3], decoded[2])
    /\ ~Conflicts(decoded[1], decoded[2])
    /\ decoded[1] # decoded[2]
    /\ len(map) = 1

\* C6: when the decoder fails, deserialize returns the decoder's error and
\* nothing else, the partially populated bimap is gone, and no step of
\* deserialize changes the caller's bimap.
C6_DecodeFailure ==
    /\ [](entries.raised # "none" =>
            /\ pc = "err"
            /\ ret = [tag |-> "Err", err |-> entries.raised]
            /\ map = NoMap)
    /\ [][CallerBimapKept]_vars

C6_Witness ==
    /\ pc = "err"
    /\ entries.raised = "E2"
    /\ Len(decoded) = 1
    /\ len(bimap) = 2
    /\ ret = [tag |-> "Err", err |-> "E2"]

\* C7: serialize hands the encoder len(M) entries, the pairs of M each once
\* and nothing else, no key and no value twice; read as a plain map the
\* stream is left2right (ascending by key in the ordered variant); the
\* bimap is not changed.
C7_SerializeExact ==
    /\ [](pc = "serialized" =>
            /\ Len(wire) = len(bimap)
            /\ WirePairs = PairsOf(bimap)
            /\ \A i, j \in DOMAIN wire :
                  i # j => wire[i].key # wire[j].key
                           /\ wire[i].value # wire[j].value
            /\ {wire[i].key : i \in DOMAIN wire} = DOMAIN bimap.left2right
            /\ \A i \in DOMAIN wire :
                  bimap.left2right[wire[i].key] = wire[i].value
            /\ variant = "btree" =>
                  \A i, j \in DOMAIN wire : i < j => wire[i].key < wire[j].key)
    /\ [][SerializeKeepsBimap]_vars

C7_Witness ==
    /\ pc = "serialized"
    /\ variant = "hash"
    /\ Len(wire) = 2
    /\ WirePairs = PairsOf(bimap)

\* C8: in the ordered variant the stream serialize emits is strictly
\* ascending in the left value.
C8_BTreeAscending ==
    (pc = "serialized" /\ variant = "btree")
    => \A i, j \in DOMAIN wire : i < j => wire[i].key < wire[j].key

C8_Witness ==
    /\ pc = "serialized"
    /\ variant = "btree"
    /\ Len(wire) = 2
    /\ wire[1].key < wire[2].key
    /\ wire[1].value > wire[2].value

\* C9: deserialize replays insert over the decoded pairs in arrival order
\* from the empty bimap; the last pair decoded is stored, and a pair that a
\* later, different pair shares a value with is not stored unless it was
\* decoded again after that.
C9_LatestWins ==
    (pc = "ok" /\ decoded # <<>>)
    => LET n == Len(decoded)
           v == ret.value
       IN /\ SameIndexes(v, Replay(decoded))
          /\ get_by_left(v, decoded[n][1]) = <<decoded[n][2]>>
          /\ get_by_right(v, decoded[n][2]) = <<decoded[n][1]>>
          /\ \A i \in 1..n :
                (\E j \in (i + 1)..n :
                    /\ Conflicts(decoded[j], decoded[i])
                    /\ \A k \in (j + 1)..n : decoded[k] # decoded[i])
                => decoded[i] \notin PairsOf(v)

C9_Witness ==
    /\ pc = "ok"
    /\ Len(decoded) = 3
    /\ Conflicts(decoded[3], decoded[1])
    /\ ~Conflicts(decoded[3], decoded[2])
    /\ decoded[1] \notin PairsOf(ret.value)
    /\ decoded[3] \in PairsOf(ret.value)

\* C10: on input whose left values are pairwise distinct and whose right
\* values are pairwise distinct, deserialize returns exactly the input
\* pairs, whatever the arrival order, the size hint and the variant; on any
\* other input the size of the result is smaller than the input's length.
C10_CollisionFreeInput ==
    pc = "ok"
    => LET n == Len(decoded)
           v == ret.value
       IN /\ CollisionFree(decoded) =>
                /\ PairsOf(v) = Range(decoded)
                /\ len(v) = n
                /\ Cardinality(DOMAIN v.right2left) = n
                /\ \A o \in Orderings(1..n) :
                      SameIndexes(v, Replay([i \in 1..n |-> decoded[o[i]]]))
          /\ ~CollisionFree(decoded) => len(v) < n

C10_Witness ==
    /\ pc = "ok"
    /\ variant = "hash"
    /\ Len(decoded) = 2
    /\ CollisionFree(decoded)
    /\ decoded[1][1] > decoded[2][1]
    /\ ret.value.cap > Len(decoded)
    /\ PairsOf(ret.value) = Range(decoded)

====
